---- MODULE Spec2Model ----
(***************************************************************************)
(* DeScarGAN models (anomaly_toolbox/models/descargan.py).                 *)
(*                                                                         *)
(* The module models the construction of the Generator and Discriminator   *)
(* layer graphs, the lazily cached initializer properties, and the shape   *)
(* and branch behaviour of the two forward passes.  Tensors are modelled   *)
(* by their shape, the first error raised on the way and the last          *)
(* primitive layer applied; layers by their Keras configuration.           *)
(*                                                                         *)
(* Instances share no state, so the model follows one instance at a time:  *)
(* `model` is the live instance, `ret` the value the last operation gave   *)
(* back to its caller, which the caller drops before the next operation.   *)
(***************************************************************************)
EXTENDS Integers, Sequences, FiniteSets, TLC

VARIABLES model, ret

vars == <<model, ret>>

(***************************************************************************)
(* Bounds of the model.                                                    *)
(***************************************************************************)
MaxDim == 129
MaxBatch == 2
MaxChannels == 2
MaxNf == 2
MaxConcatDim == 2

(***************************************************************************)
(* Program constants.                                                      *)
(***************************************************************************)
c_dim == 2
one_hot_depth == 2
conv_kernel_size == 3
conv_momentum == 1
deconv_kernel_size == 4
deconv_strides == 2
upsample_kernel_size == 3
pool_size == 2
upsampling_size == 2
critic_kernel_size == 1
linearclass_units == 64
linearclass_classes == 2

Labels == 0 .. (one_hot_depth - 1)

\* Input heights and widths: at least one pooling window wide, and next to a
\* multiple of 32, where the five (six) poolings of the Discriminator and the
\* three of the Generator change behaviour.
Dims == {d \in pool_size .. MaxDim : d % 32 \in {0, 1, 31}}

Batches == UNION {[1 .. n -> Labels] : n \in 1 .. MaxBatch}

(***************************************************************************)
(* Initializer objects and layers.                                         *)
(***************************************************************************)
None == [cls |-> "None", id |-> 0]

KerasDefault == [cls |-> "default", id |-> 0]

Layer(kind) ==
    [kind |-> kind, input_shape |-> 0, filters |-> 0, kernel_size |-> 0,
     strides |-> 0, padding |-> "", use_bias |-> FALSE,
     kernel_initializer |-> None, bias_initializer |-> None,
     momentum |-> 0, layers |-> <<>>]

NoLayer == Layer("None")

Sequential(layers) == [Layer("Sequential") EXCEPT !.layers = layers]

Conv2D(input_shape, filters, kernel_size, strides, padding, kinit, binit, use_bias) ==
    [Layer("Conv2D") EXCEPT !.input_shape = input_shape, !.filters = filters,
                            !.kernel_size = kernel_size, !.strides = strides,
                            !.padding = padding, !.use_bias = use_bias,
                            !.kernel_initializer = kinit,
                            !.bias_initializer = binit]

Conv2DTranspose(input_shape, filters, kernel_size, strides, padding) ==
    [Layer("Conv2DTranspose") EXCEPT !.input_shape = input_shape,
                                     !.filters = filters,
                                     !.kernel_size = kernel_size,
                                     !.strides = strides, !.padding = padding,
                                     !.use_bias = TRUE,
                                     !.kernel_initializer = KerasDefault,
                                     !.bias_initializer = KerasDefault]

BatchNormalization(momentum) ==
    [Layer("BatchNormalization") EXCEPT !.momentum = momentum]

MaxPool2D ==
    [Layer("MaxPool2D") EXCEPT !.kernel_size = pool_size, !.strides = pool_size,
                               !.padding = "VALID"]

UpSampling2D == [Layer("UpSampling2D") EXCEPT !.kernel_size = upsampling_size]

Dense(units) ==
    [Layer("Dense") EXCEPT !.filters = units, !.use_bias = TRUE,
                           !.kernel_initializer = KerasDefault,
                           !.bias_initializer = KerasDefault]

\* activation_fn is called without arguments (line 68): a layer class gives a
\* layer, a plain function of one tensor (k.activations.tanh, tf.identity)
\* raises TypeError.
ActivationFns == {"ReLU", "tanh", "identity"}

IsLayerClass(activation_fn) == activation_fn = "ReLU"

(***************************************************************************)
(* The cached initializer properties.  `made_kernel` and `made_bias` count *)
(* the initializer objects the instance has constructed: the identity of   *)
(* an initializer object is its class and its serial number.               *)
(***************************************************************************)
GeneratorKernelInitializerAlwaysNew(self) ==
    LET s == [self EXCEPT !.made_kernel = @ + 1,
                          !._kernel_initializer =
                              [cls |-> "HeNormal", id |-> self.made_kernel + 1]]
    IN  [self |-> s, ret |-> s._kernel_initializer]

GeneratorKernelInitializer(self) ==
    LET s == IF self._kernel_initializer = None
             THEN [self EXCEPT !.made_kernel = @ + 1,
                               !._kernel_initializer =
                                   [cls |-> "HeNormal", id |-> self.made_kernel + 1]]
             ELSE self
    IN  [self |-> s, ret |-> s._kernel_initializer]

GeneratorBiasInitializer(self) ==
    LET s == IF self._bias_initializer = None
             THEN [self EXCEPT !.made_bias = @ + 1,
                               !._bias_initializer =
                                   [cls |-> "Zeros", id |-> self.made_bias + 1]]
             ELSE self
    IN  [self |-> s, ret |-> s._bias_initializer]

DiscriminatorKernelInitializer(self) ==
    LET s == IF self._kernel_initializer = None
             THEN [self EXCEPT !.made_kernel = @ + 1,
                               !._kernel_initializer =
                                   [cls |-> "GlorotNormal", id |-> self.made_kernel + 1]]
             ELSE self
    IN  [self |-> s, ret |-> s._kernel_initializer]

DiscriminatorBiasInitializer(self) ==
    LET s == IF self._bias_initializer = None
             THEN [self EXCEPT !.made_bias = @ + 1,
                               !._bias_initializer =
                                   [cls |-> "Zeros", id |-> self.made_bias + 1]]
             ELSE self
    IN  [self |-> s, ret |-> s._bias_initializer]

\* self.kernel_initializer / self.bias_initializer dispatch on the class.
kernel_initializer(self) ==
    IF self.cls = "Generator" THEN GeneratorKernelInitializer(self)
    ELSE DiscriminatorKernelInitializer(self)

bias_initializer(self) ==
    IF self.cls = "Generator" THEN GeneratorBiasInitializer(self)
    ELSE DiscriminatorBiasInitializer(self)

(***************************************************************************)
(* DeScarGANModel.conv.  The argument of k.Sequential is                   *)
(*     [Conv2D] + [BatchNormalization] if self._batch_norm                 *)
(*                                     else [] + [activation_fn()]         *)
(* the conditional expression binds weaker than +, so the condition is     *)
(* evaluated first and only the chosen arm is evaluated.                   *)
(***************************************************************************)
conv(self, input_shape, filters, kernel_size, momentum, activation_fn) ==
    IF self._batch_norm
    THEN LET k == kernel_initializer(self)
             b == bias_initializer(k.self)
         IN  [self |-> b.self, raised |-> FALSE,
              ret |-> Sequential(
                  <<Conv2D(input_shape, filters, kernel_size, 1, "SAME",
                           k.ret, b.ret, ~self._batch_norm)>>
                  \o <<BatchNormalization(momentum)>>)]
    ELSE IF IsLayerClass(activation_fn)
         THEN [self |-> self, raised |-> FALSE,
               ret |-> Sequential(<<>> \o <<Layer(activation_fn)>>)]
         ELSE [self |-> self, raised |-> TRUE, ret |-> NoLayer]

\* DeScarGANModel.deconv (static).
deconv(input_shape, filters, use_upsample, kernel_size, strides, padding, momentum, activation_fn) ==
    LET up_layer ==
            IF use_upsample
            THEN Sequential(<<UpSampling2D,
                              Conv2D(input_shape, filters, upsample_kernel_size,
                                     1, "SAME", KerasDefault, KerasDefault, TRUE)>>)
            ELSE Conv2DTranspose(input_shape, filters, kernel_size, strides,
                                 padding)
    IN  Sequential(<<up_layer, BatchNormalization(momentum),
                     Layer(activation_fn)>>)

(***************************************************************************)
(* Construction.  A constructor is a list of attribute assignments; the    *)
(* right-hand side of each is a k.Sequential over a list of items (a call  *)
(* of self.conv or a primitive layer) or a call of self.deconv.  The items *)
(* are evaluated in order, threading `self` (the initializer caches); the  *)
(* first TypeError leaves the remaining attributes unassigned.             *)
(***************************************************************************)
ConvItem(input_shape, filters, kernel_size, activation_fn) ==
    [op |-> "conv", input_shape |-> input_shape, filters |-> filters,
     kernel_size |-> kernel_size, activation_fn |-> activation_fn,
     layer |-> NoLayer]

LayerItem(layer) ==
    [op |-> "layer", input_shape |-> 0, filters |-> 0, kernel_size |-> 0,
     activation_fn |-> "", layer |-> layer]

SequentialAttr(name, items) ==
    [name |-> name, rhs |-> "Sequential", items |-> items, input_shape |-> 0,
     filters |-> 0]

DeconvAttr(name, input_shape, filters) ==
    [name |-> name, rhs |-> "deconv", items |-> <<>>,
     input_shape |-> input_shape, filters |-> filters]

RECURSIVE BuildItems(_, _)
BuildItems(self, items) ==
    IF items = <<>>
    THEN [self |-> self, raised |-> FALSE, ret |-> <<>>]
    ELSE LET it == Head(items)
             r  == IF it.op = "conv"
                   THEN conv(self, it.input_shape, it.filters, it.kernel_size,
                             conv_momentum, it.activation_fn)
                   ELSE [self |-> self, raised |-> FALSE, ret |-> it.layer]
         IN  IF r.raised
             THEN [self |-> r.self, raised |-> TRUE, ret |-> <<>>]
             ELSE LET rest == BuildItems(r.self, Tail(items))
                  IN  [self |-> rest.self, raised |-> rest.raised,
                       ret |-> <<r.ret>> \o rest.ret]

RECURSIVE Assign(_, _)
Assign(self, plan) ==
    IF plan = <<>>
    THEN [self EXCEPT !.status = "built"]
    ELSE LET a == Head(plan)
         IN  IF a.rhs = "deconv"
             THEN Assign([self EXCEPT !.attrs[a.name] =
                              deconv(a.input_shape, a.filters, TRUE,
                                     deconv_kernel_size, deconv_strides, "SAME",
                                     conv_momentum, "ReLU")],
                         Tail(plan))
             ELSE LET r == BuildItems(self, a.items)
                  IN  IF r.raised
                      THEN [r.self EXCEPT !.status = "raised"]
                      ELSE Assign([r.self EXCEPT !.attrs[a.name] =
                                       Sequential(r.ret)],
                                  Tail(plan))

AttrNames ==
    {"_down0", "_down1", "_down2", "_down3", "_up3", "_conv5", "_up2",
     "_conv6", "_up1", "_conv7_ill", "_conv7_healty",
     "_encoder", "_conv_ill", "_conv_healty", "_conv2", "_linearclass"}

\* DeScarGANModel.__init__; cls, the constructor arguments n_channels and nf
\* and the made_* counters are kept for the properties.
DeScarGANModelInit(cls, ill_label, n_channels, nf, batch_norm) ==
    [cls |-> cls, status |-> "constructing", _batch_norm |-> batch_norm,
     _bias_initializer |-> None, _kernel_initializer |-> None,
     made_kernel |-> 0, made_bias |-> 0,
     _ill_label |-> ill_label, n_channels |-> n_channels, nf |-> nf,
     attrs |-> [a \in AttrNames |-> NoLayer]]

NoModel == [DeScarGANModelInit("None", 0, 0, 0, FALSE) EXCEPT !.status = "none"]

\* Generator.__init__: the attribute assignments of lines 168-231.
GeneratorPlan(n_channels, nf) ==
    <<SequentialAttr("_down0",
          <<ConvItem(n_channels + c_dim, nf, conv_kernel_size, "ReLU"),
            ConvItem(nf, nf, conv_kernel_size, "ReLU")>>),
      SequentialAttr("_down1",
          <<LayerItem(MaxPool2D),
            ConvItem(nf, nf * 2, conv_kernel_size, "ReLU"),
            ConvItem(nf * 2, nf * 2, conv_kernel_size, "ReLU")>>),
      SequentialAttr("_down2",
          <<LayerItem(MaxPool2D),
            ConvItem(nf * 2, nf * 4, conv_kernel_size, "ReLU"),
            ConvItem(nf * 4, nf * 4, conv_kernel_size, "ReLU")>>),
      SequentialAttr("_down3",
          <<LayerItem(MaxPool2D),
            ConvItem(nf * 4, nf * 8, conv_kernel_size, "ReLU"),
            ConvItem(nf * 8, nf * 8, conv_kernel_size, "ReLU")>>),
      DeconvAttr("_up3", nf * 8, nf * 4),
      SequentialAttr("_conv5",
          <<ConvItem(nf * 8, nf * 4, conv_kernel_size, "ReLU"),
            ConvItem(nf * 4, nf * 4, conv_kernel_size, "ReLU")>>),
      DeconvAttr("_up2", nf * 4, nf * 2),
      SequentialAttr("_conv6",
          <<ConvItem(nf * 4, nf * 2, conv_kernel_size, "ReLU"),
            ConvItem(nf * 2, nf * 2, conv_kernel_size, "ReLU")>>),
      DeconvAttr("_up1", nf * 2, nf),
      SequentialAttr("_conv7_ill",
          <<ConvItem(nf, nf, conv_kernel_size, "ReLU"),
            ConvItem(nf, n_channels, conv_kernel_size, "tanh")>>),
      SequentialAttr("_conv7_healty",
          <<ConvItem(nf, nf, conv_kernel_size, "ReLU"),
            ConvItem(nf, n_channels, conv_kernel_size, "tanh")>>)>>

GeneratorInit(ill_label, n_channels, nf, batch_norm) ==
    Assign(DeScarGANModelInit("Generator", ill_label, n_channels, nf, batch_norm),
           GeneratorPlan(n_channels, nf))

\* An encoder of six conv blocks, one before each max-pool and one after the
\* last.
DiscriminatorEncoderItemsSix(n_channels, nf) ==
    <<ConvItem(n_channels, nf, conv_kernel_size, "ReLU"),
      LayerItem(MaxPool2D),
      ConvItem(nf, nf * 2, conv_kernel_size, "ReLU"),
      LayerItem(MaxPool2D),
      ConvItem(nf * 2, nf * 4, conv_kernel_size, "ReLU"),
      LayerItem(MaxPool2D),
      ConvItem(nf * 4, nf * 8, conv_kernel_size, "ReLU"),
      LayerItem(MaxPool2D),
      ConvItem(nf * 8, nf * 8, conv_kernel_size, "ReLU"),
      LayerItem(MaxPool2D),
      ConvItem(nf * 8, nf * 16, conv_kernel_size, "ReLU")>>

\* Discriminator.__init__: the _encoder of lines 289-306.
DiscriminatorEncoderItems(n_channels, nf) ==
    <<ConvItem(n_channels, nf, conv_kernel_size, "ReLU"),
      LayerItem(MaxPool2D),
      ConvItem(nf, nf * 2, conv_kernel_size, "ReLU"),
      LayerItem(MaxPool2D),
      ConvItem(nf * 2, nf * 4, conv_kernel_size, "ReLU"),
      ConvItem(nf * 4, nf * 4, conv_kernel_size, "ReLU"),
      LayerItem(MaxPool2D),
      ConvItem(nf * 4, nf * 8, conv_kernel_size, "ReLU"),
      ConvItem(nf * 8, nf * 8, conv_kernel_size, "ReLU"),
      LayerItem(MaxPool2D),
      ConvItem(nf * 8, nf * 8, conv_kernel_size, "ReLU"),
      ConvItem(nf * 8, nf * 8, conv_kernel_size, "ReLU"),
      LayerItem(MaxPool2D),
      ConvItem(nf * 8, nf * 16, conv_kernel_size, "ReLU")>>

\* Discriminator.__init__: the attribute assignments of lines 289-343.
DiscriminatorPlan(n_channels, nf) ==
    <<SequentialAttr("_encoder", DiscriminatorEncoderItems(n_channels, nf)),
      SequentialAttr("_conv_ill",
          <<ConvItem(nf * 16, nf * 16, conv_kernel_size, "ReLU"),
            ConvItem(nf * 16, nf * 16, conv_kernel_size, "ReLU"),
            ConvItem(nf * 16, 1, critic_kernel_size, "identity")>>),
      SequentialAttr("_conv_healty",
          <<ConvItem(nf * 16, nf * 16, conv_kernel_size, "ReLU"),
            ConvItem(nf * 16, nf * 16, conv_kernel_size, "ReLU"),
            ConvItem(nf * 16, 1, critic_kernel_size, "identity")>>),
      SequentialAttr("_conv2",
          <<ConvItem(nf * 16, nf * 16, conv_kernel_size, "ReLU"),
            ConvItem(nf * 16, nf * 16, conv_kernel_size, "ReLU"),
            LayerItem(MaxPool2D)>>),
      SequentialAttr("_linearclass",
          <<LayerItem(Layer("Flatten")),
            LayerItem(Dense(linearclass_units)),
            LayerItem(Layer("ReLU")),
            LayerItem(Layer("Dropout")),
            LayerItem(Dense(linearclass_classes))>>)>>

DiscriminatorInit(ill_label, n_channels, nf, batch_norm) ==
    Assign(DeScarGANModelInit("Discriminator", ill_label, n_channels, nf, batch_norm),
           DiscriminatorPlan(n_channels, nf))

(***************************************************************************)
(* Tensors: rank, shape (n, h, w, c) for rank 4 and (n, c) for rank 2,     *)
(* the first error raised while computing it ("" when none), and the last  *)
(* primitive layer that produced it.                                       *)
(***************************************************************************)
Tensor(n, h, w, c) ==
    [rank |-> 4, n |-> n, h |-> h, w |-> w, c |-> c, err |-> "", last |-> "input"]

NoTensor ==
    [rank |-> 0, n |-> 0, h |-> 0, w |-> 0, c |-> 0, err |-> "none", last |-> ""]

Raise(t, e) == [NoTensor EXCEPT !.err = e, !.last = t.last]

\* Output size of MaxPool2D (pool 2, stride 2, padding "valid").
PoolOutCeil(d) == (d + pool_size - 1) \div pool_size

PoolOut(d) == d \div pool_size

\* Output size of a convolution with padding "SAME".
SameOut(d, strides) == (d + strides - 1) \div strides

\* One primitive layer applied to a tensor without error.  A pooling window
\* larger than the input raises under static shape inference and gives an
\* empty tensor otherwise: `strict` is which of the two the execution does.
Primitive(layer, t, strict) ==
    CASE layer.kind = "Conv2D" ->
            IF t.rank # 4 THEN Raise(t, "ndim")
            ELSE [t EXCEPT !.h = SameOut(t.h, layer.strides),
                           !.w = SameOut(t.w, layer.strides),
                           !.c = layer.filters, !.last = "Conv2D"]
      [] layer.kind = "Conv2DTranspose" ->
            IF t.rank # 4 THEN Raise(t, "ndim")
            ELSE [t EXCEPT !.h = t.h * layer.strides, !.w = t.w * layer.strides,
                           !.c = layer.filters, !.last = "Conv2DTranspose"]
      [] layer.kind = "MaxPool2D" ->
            IF t.rank # 4 THEN Raise(t, "ndim")
            ELSE IF strict /\ (t.h < pool_size \/ t.w < pool_size)
                 THEN Raise(t, "MaxPool2D")
                 ELSE [t EXCEPT !.h = PoolOut(t.h), !.w = PoolOut(t.w),
                                !.last = "MaxPool2D"]
      [] layer.kind = "UpSampling2D" ->
            IF t.rank # 4 THEN Raise(t, "ndim")
            ELSE [t EXCEPT !.h = t.h * upsampling_size,
                           !.w = t.w * upsampling_size,
                           !.last = "UpSampling2D"]
      [] layer.kind = "Flatten" ->
            IF t.rank = 4
            THEN [t EXCEPT !.rank = 2, !.c = t.h * t.w * t.c, !.h = 0, !.w = 0,
                           !.last = "Flatten"]
            ELSE [t EXCEPT !.last = "Flatten"]
      [] layer.kind = "Dense" -> [t EXCEPT !.c = layer.filters, !.last = "Dense"]
      [] OTHER -> [t EXCEPT !.last = layer.kind]

\* The first layer of a k.Sequential that declares input_shape builds the
\* Sequential for that depth: an input of another depth is rejected.
InputSpecOk(layers, t) ==
    \/ layers = <<>>
    \/ layers[1].kind \notin {"Conv2D", "Conv2DTranspose"}
    \/ layers[1].input_shape = 0
    \/ layers[1].input_shape = t.c

RECURSIVE Apply(_, _, _)
RECURSIVE ApplyLayers(_, _, _)
\* layer(t, training=...)
Apply(layer, t, strict) ==
    IF t.err # "" THEN t
    ELSE IF layer.kind = "Sequential"
         THEN IF InputSpecOk(layer.layers, t)
              THEN ApplyLayers(layer.layers, t, strict)
              ELSE Raise(t, "input_spec")
         ELSE Primitive(layer, t, strict)

ApplyLayers(layers, t, strict) ==
    IF layers = <<>> \/ t.err # "" THEN t
    ELSE ApplyLayers(Tail(layers), Apply(Head(layers), t, strict), strict)

\* tf.concat([a, b], axis=-1)
concatNoCheck(upsampled, bypass) ==
    IF upsampled.err # "" THEN upsampled
    ELSE IF bypass.err # "" THEN bypass
    ELSE [upsampled EXCEPT !.c = upsampled.c + bypass.c, !.last = "concat"]

\* DeScarGANModel.concat (static).
concat(upsampled, bypass) ==
    IF upsampled.err # "" THEN upsampled
    ELSE IF bypass.err # "" THEN bypass
    ELSE IF \/ upsampled.rank # bypass.rank
            \/ upsampled.n # bypass.n
            \/ upsampled.h # bypass.h
            \/ upsampled.w # bypass.w
         THEN Raise(upsampled, "concat")
         ELSE [upsampled EXCEPT !.c = upsampled.c + bypass.c, !.last = "concat"]

\* tf.one_hot(label, depth=2): one row per example.
one_hot(label, depth) ==
    [i \in 1 .. Len(label) |-> [j \in 1 .. depth |-> IF label[i] = j - 1 THEN 1 ELSE 0]]

\* tf.tile(one_hot_label[:, newaxis, newaxis, :], [1, H, W, 1]): its shape.
tile(one_hot_label, depth, h, w) ==
    [Tensor(Len(one_hot_label), h, w, depth) EXCEPT !.last = "tile"]

\* tf.equal(self._ill_label, label), element-wise with broadcasting.
equal(ill_label, label) == [i \in 1 .. Len(label) |-> ill_label = label[i]]

RECURSIVE reduce_any(_)
reduce_any(b) == IF b = <<>> THEN FALSE ELSE Head(b) \/ reduce_any(Tail(b))

RECURSIVE reduce_all(_)
reduce_all(b) == IF b = <<>> THEN TRUE ELSE Head(b) /\ reduce_all(Tail(b))

\* tf.squeeze(t, axis=[1, 2])
squeezeAnySize(t) ==
    IF t.err # "" THEN t
    ELSE [t EXCEPT !.rank = 2, !.c = t.h * t.w * t.c, !.h = 0, !.w = 0,
                   !.last = "squeeze"]

squeeze(t) ==
    IF t.err # "" THEN t
    ELSE IF t.rank = 4 /\ t.h = 1 /\ t.w = 1
         THEN [t EXCEPT !.rank = 2, !.h = 0, !.w = 0, !.last = "squeeze"]
         ELSE Raise(t, "squeeze")

(***************************************************************************)
(* What an operation gives back to its caller.  err is the exception       *)
(* raised ("" when the call returned); out and pred are the returned       *)
(* tensors; head, hidden and cats trace the call: the head tf.cond took,   *)
(* the encoder output, and the concatenations the decoder attempted.       *)
(***************************************************************************)
Ret(kind) ==
    [kind |-> kind, x |-> NoTensor, bypass |-> NoTensor, label |-> <<>>,
     err |-> "", out |-> NoTensor, pred |-> NoTensor, head |-> "",
     hidden |-> NoTensor, cats |-> <<>>, val |-> None]

NoRet == Ret("none")

Cat(name, upsampled, bypass) ==
    [name |-> name, upsampled |-> upsampled, bypass |-> bypass,
     out |-> concat(upsampled, bypass)]

\* Generator.call
GeneratorCall(self, x, label, strict) ==
    LET one_hot_label     == one_hot(label, one_hot_depth)
        condition         == tile(one_hot_label, one_hot_depth, x.h, x.w)
        x1                == concat(x, condition)
        input_0           == Apply(self.attrs["_down0"], x1, strict)
        input_1           == Apply(self.attrs["_down1"], input_0, strict)
        input_2           == Apply(self.attrs["_down2"], input_1, strict)
        input_3           == Apply(self.attrs["_down3"], input_2, strict)
        input_upsampled_3 == Apply(self.attrs["_up3"], input_3, strict)
        cat3              == Cat("input_2", input_upsampled_3, input_2)
        input_5           == Apply(self.attrs["_conv5"], cat3.out, strict)
        input_upsampled_2 == Apply(self.attrs["_up2"], input_5, strict)
        cat2              == Cat("input_1", input_upsampled_2, input_1)
        input_6           == Apply(self.attrs["_conv6"], cat2.out, strict)
        input_upsampled_1 == Apply(self.attrs["_up1"], input_6, strict)
        ill               == reduce_all(equal(self._ill_label, label))
        out               == IF ill
                             THEN Apply(self.attrs["_conv7_ill"], input_upsampled_1, strict)
                             ELSE Apply(self.attrs["_conv7_healty"], input_upsampled_1, strict)
    IN  [Ret("Generator.call") EXCEPT
            !.x = x, !.label = label, !.err = out.err,
            !.out = IF out.err = "" THEN out ELSE NoTensor,
            !.head = IF out.err # "" THEN "" ELSE IF ill THEN "_conv7_ill" ELSE "_conv7_healty",
            !.hidden = input_upsampled_1,
            !.cats = (IF input_upsampled_3.err = "" THEN <<cat3>> ELSE <<>>)
                     \o (IF input_upsampled_2.err = "" THEN <<cat2>> ELSE <<>>)]

\* Discriminator.call
DiscriminatorCall(self, x, label, strict) ==
    LET hidden == Apply(self.attrs["_encoder"], x, strict)
        ill    == reduce_all(equal(self._ill_label, label))
        out    == IF ill
                  THEN Apply(self.attrs["_conv_ill"], hidden, strict)
                  ELSE Apply(self.attrs["_conv_healty"], hidden, strict)
        conv2  == Apply(self.attrs["_conv2"], hidden, strict)
        pred   == Apply(self.attrs["_linearclass"], squeeze(conv2), strict)
    IN  [Ret("Discriminator.call") EXCEPT
            !.x = x, !.label = label,
            !.err = IF out.err # "" THEN out.err ELSE pred.err,
            !.out = IF pred.err = "" THEN out ELSE NoTensor,
            !.pred = IF pred.err = "" THEN pred ELSE NoTensor,
            !.head = IF out.err # "" THEN "" ELSE IF ill THEN "_conv_ill" ELSE "_conv_healty",
            !.hidden = hidden]

(***************************************************************************)
(* The state machine.                                                      *)
(***************************************************************************)
Init ==
    /\ model = NoModel
    /\ ret = NoRet

\* Generator(ill_label, n_channels, nf, batch_norm)
NewGenerator ==
    /\ model.status = "none"
    /\ ret = NoRet
    /\ \E ill_label \in Labels, n_channels \in 1 .. MaxChannels,
          nf \in 1 .. MaxNf, batch_norm \in BOOLEAN :
          model' = GeneratorInit(ill_label, n_channels, nf, batch_norm)
    /\ UNCHANGED ret

\* Discriminator(ill_label, n_channels, nf, batch_norm)
NewDiscriminator ==
    /\ model.status = "none"
    /\ ret = NoRet
    /\ \E ill_label \in Labels, n_channels \in 1 .. MaxChannels,
          nf \in 1 .. MaxNf, batch_norm \in BOOLEAN :
          model' = DiscriminatorInit(ill_label, n_channels, nf, batch_norm)
    /\ UNCHANGED ret

\* generator([x, label])
CallGenerator ==
    /\ model.cls = "Generator"
    /\ model.status = "built"
    /\ ret = NoRet
    /\ \E label \in Batches, h \in Dims, w \in Dims, c \in 1 .. MaxChannels,
          strict \in BOOLEAN :
          ret' = GeneratorCall(model, Tensor(Len(label), h, w, c), label, strict)
    /\ UNCHANGED model

\* discriminator([x, label])
CallDiscriminator ==
    /\ model.cls = "Discriminator"
    /\ model.status = "built"
    /\ ret = NoRet
    /\ \E label \in Batches, h \in Dims, w \in Dims, c \in 1 .. MaxChannels,
          strict \in BOOLEAN :
          ret' = DiscriminatorCall(model, Tensor(Len(label), h, w, c), label, strict)
    /\ UNCHANGED model

\* instance.kernel_initializer
ReadKernelInitializer ==
    /\ model.status = "built"
    /\ ret = NoRet
    /\ LET r == kernel_initializer(model)
       IN  /\ model' = r.self
           /\ ret' = [Ret("kernel_initializer") EXCEPT !.val = r.ret]

\* instance.bias_initializer
ReadBiasInitializer ==
    /\ model.status = "built"
    /\ ret = NoRet
    /\ LET r == bias_initializer(model)
       IN  /\ model' = r.self
           /\ ret' = [Ret("bias_initializer") EXCEPT !.val = r.ret]

\* DeScarGANModel.concat(upsampled, bypass): a static method, which reads no
\* instance; it is called here while no instance is live.
CallConcat ==
    /\ model.status = "none"
    /\ ret = NoRet
    /\ \E n1 \in 1 .. MaxBatch, n2 \in 1 .. MaxBatch,
          h1 \in 1 .. MaxConcatDim, h2 \in 1 .. MaxConcatDim,
          w1 \in 1 .. MaxConcatDim, w2 \in 1 .. MaxConcatDim,
          c1 \in 1 .. MaxChannels, c2 \in 1 .. MaxChannels :
          LET upsampled == Tensor(n1, h1, w1, c1)
              bypass    == Tensor(n2, h2, w2, c2)
              out       == concat(upsampled, bypass)
          IN  ret' = [Ret("concat") EXCEPT
                         !.x = upsampled, !.bypass = bypass, !.err = out.err,
                         !.out = IF out.err = "" THEN out ELSE NoTensor]
    /\ UNCHANGED model

\* The caller drops the value (or exception) of the last operation.
Drop ==
    /\ ret # NoRet
    /\ ret' = NoRet
    /\ UNCHANGED model

\* The instance (or the half-constructed object of a constructor that raised)
\* is released.
Release ==
    /\ model.status # "none"
    /\ ret = NoRet
    /\ model' = NoModel
    /\ UNCHANGED ret

Next ==
    \/ NewGenerator
    \/ NewDiscriminator
    \/ CallGenerator
    \/ CallDiscriminator
    \/ ReadKernelInitializer
    \/ ReadBiasInitializer
    \/ CallConcat
    \/ Drop
    \/ Release

Spec == Init /\ [][Next]_vars

(***************************************************************************)
(* Properties.                                                             *)
(***************************************************************************)
GeneratorReturned == ret.kind = "Generator.call" /\ ret.err = ""

DiscriminatorReturned == ret.kind = "Discriminator.call" /\ ret.err = ""

\* The attributes assigned from a k.Sequential over conv blocks and layers.
SequentialAttrs == AttrNames \ {"_up3", "_up2", "_up1", "_linearclass"}

\* The blocks self.conv returned that the instance m holds, by position.
ConvBlockAt(m) ==
    {p \in SequentialAttrs \X (1 .. 14) :
        /\ p[2] <= Len(m.attrs[p[1]].layers)
        /\ m.attrs[p[1]].layers[p[2]].kind = "Sequential"}

ConvBlocks(m) == {m.attrs[p[1]].layers[p[2]] : p \in ConvBlockAt(m)}

\* The conv blocks of a Sequential attribute, in order.
BlocksOf(layer) ==
    SelectSeq(layer.layers, LAMBDA l : l.kind = "Sequential")

PoolsOf(layer) ==
    SelectSeq(layer.layers, LAMBDA l : l.kind = "MaxPool2D")

SameSpatial(a, b) == a.n = b.n /\ a.h = b.h /\ a.w = b.w

\* C1: whenever Generator.call returns (default batch_norm), the output has
\* the batch, height and width of the input image and n_channels channels.
C1_GeneratorOutputShape ==
    (GeneratorReturned /\ model._batch_norm)
        => /\ ret.out.rank = 4
           /\ SameSpatial(ret.out, ret.x)
           /\ ret.out.c = model.n_channels

\* C2: whenever Discriminator.call returns, the critic score map has shape
\* (batch, floor(H/32), floor(W/32), 1) and the logits have shape (batch, 2).
C2_DiscriminatorOutputShapes ==
    DiscriminatorReturned
        => /\ ret.out.rank = 4
           /\ ret.out.n = ret.x.n
           /\ ret.out.h = ret.x.h \div 32
           /\ ret.out.w = ret.x.w \div 32
           /\ ret.out.c = 1
           /\ ret.pred.rank = 2
           /\ ret.pred.n = ret.x.n
           /\ ret.pred.c = 2

\* C2 witness: a Discriminator call returned for a 96 x 64 image, whose score
\* map is 3 x 2.
C2_Witness ==
    /\ DiscriminatorReturned
    /\ ret.x.h = 96 /\ ret.x.w = 64
    /\ ret.out.h = 3 /\ ret.out.w = 2
    /\ ret.pred.c = 2

\* C3: in both forward passes the whole batch goes through the ill head if
\* every label equals ill_label and through the healthy head if at least one
\* label differs; one head is taken per call.
C3_BatchUniformHead ==
    (ret.kind \in {"Generator.call", "Discriminator.call"} /\ ret.head # "")
        => LET allIll == \A i \in 1 .. Len(ret.label) : ret.label[i] = model._ill_label
           IN  /\ allIll => ret.head \in {"_conv7_ill", "_conv_ill"}
               /\ ~allIll => ret.head \in {"_conv7_healty", "_conv_healty"}
               /\ ret.kind = "Generator.call" => ret.head \in {"_conv7_ill", "_conv7_healty"}
               /\ ret.kind = "Discriminator.call" => ret.head \in {"_conv_ill", "_conv_healty"}

\* C3 witness: a mixed batch (one label equal to ill_label, one not) went
\* through the healthy head of the Discriminator.
C3_Witness ==
    /\ ret.kind = "Discriminator.call"
    /\ ret.head = "_conv_healty"
    /\ \E i, j \in 1 .. Len(ret.label) :
          ret.label[i] = model._ill_label /\ ret.label[j] # model._ill_label

\* C4: every block conv returned is [Conv2D, BatchNormalization iff batch_norm,
\* activation]: the convolution first, with a bias iff batch_norm is off, the
\* activation last.
C4_ConvBlockStructure ==
    \A blk \in ConvBlocks(model) :
        LET ls == blk.layers
            bn == model._batch_norm
        IN  /\ Len(ls) = (IF bn THEN 3 ELSE 2)
            /\ ls[1].kind = "Conv2D"
            /\ ls[1].use_bias = ~bn
            /\ bn => ls[2].kind = "BatchNormalization"
            /\ ls[Len(ls)].kind \in ActivationFns

\* C5: in every constructed Generator both output heads end in a tanh-activated
\* convolution with n_channels filters, and tanh is the last operation applied
\* to the tensor Generator.call returns.
C5_GeneratorEndsInTanh ==
    /\ (model.cls = "Generator" /\ model.status = "built")
          => \A a \in {"_conv7_ill", "_conv7_healty"} :
                LET blocks == model.attrs[a].layers
                    ls     == blocks[Len(blocks)].layers
                IN  /\ \E i \in 1 .. Len(ls) :
                          ls[i].kind = "Conv2D" /\ ls[i].filters = model.n_channels
                    /\ ls[Len(ls)].kind = "tanh"
    /\ GeneratorReturned => ret.out.last = "tanh"

\* C6: an instance constructs each initializer at most once, every Conv2D of
\* its conv blocks holds the cached instance, and every read of the property
\* returns that same instance.
C6_InitializersCached ==
    /\ model.made_kernel <= 1
    /\ model.made_bias <= 1
    /\ \A blk \in ConvBlocks(model) :
          \A i \in 1 .. Len(blk.layers) :
              blk.layers[i].kind = "Conv2D"
                  => /\ blk.layers[i].kernel_initializer = model._kernel_initializer
                     /\ blk.layers[i].bias_initializer = model._bias_initializer
                     /\ model._kernel_initializer # None
                     /\ model._bias_initializer # None
    /\ ret.kind = "kernel_initializer"
          => ret.val = model._kernel_initializer /\ ret.val # None /\ ret.val.id = 1
    /\ ret.kind = "bias_initializer"
          => ret.val = model._bias_initializer /\ ret.val # None /\ ret.val.id = 1

\* C6 witness: kernel_initializer was read on a Generator whose constructor
\* had read it before, and the read returned the cached HeNormal instance.
C6_Witness ==
    /\ ret.kind = "kernel_initializer"
    /\ model.cls = "Generator"
    /\ ret.val = [cls |-> "HeNormal", id |-> 1]
    /\ ConvBlocks(model) # {}

C8_ThreeDecoderStages ==
    GeneratorReturned
        => /\ Len(ret.cats) = 3
           /\ \A name \in {"input_0", "input_1", "input_2"} :
                 Cardinality({i \in 1 .. Len(ret.cats) : ret.cats[i].name = name}) = 1

\* The filter widths of the conv blocks of the Discriminator's _encoder.
EncoderWidths(m) ==
    [i \in 1 .. Len(BlocksOf(m.attrs["_encoder"])) |->
        BlocksOf(m.attrs["_encoder"])[i].layers[1].filters]

EncoderDepths(m) ==
    [i \in 1 .. Len(BlocksOf(m.attrs["_encoder"])) |->
        BlocksOf(m.attrs["_encoder"])[i].layers[1].input_shape]

\* The declared input depth of each conv block of the _encoder is the width
\* of the block before it (n_channels for the first), and the three heads
\* declare the width of the last block.
EncoderChained(m) ==
    /\ EncoderDepths(m)[1] = m.n_channels
    /\ \A i \in 2 .. Len(EncoderDepths(m)) : EncoderDepths(m)[i] = EncoderWidths(m)[i - 1]
    /\ \A a \in {"_conv_ill", "_conv_healty", "_conv2"} :
          m.attrs[a].layers[1].layers[1].input_shape =
              EncoderWidths(m)[Len(EncoderWidths(m))]

HiddenShared ==
    DiscriminatorReturned
        => /\ ret.hidden.c = 16 * model.nf
           /\ SameSpatial(ret.out, ret.hidden)

\* C9 as stated: the shared encoder of a constructed Discriminator has exactly
\* six conv blocks and five max-pools, with the chained widths nf .. 16nf, and
\* its output is the hidden map both critic heads and the classifier read.
C9_SixConvBlocks ==
    /\ (model.cls = "Discriminator" /\ model.status = "built")
          => /\ Len(BlocksOf(model.attrs["_encoder"])) = 6
             /\ Len(PoolsOf(model.attrs["_encoder"])) = 5
             /\ EncoderWidths(model) =
                   <<model.nf, 2 * model.nf, 4 * model.nf, 4 * model.nf,
                     8 * model.nf, 8 * model.nf, 8 * model.nf, 16 * model.nf>>
             /\ EncoderChained(model)
    /\ HiddenShared

\* C9 as amended: the shared encoder is one sequence of exactly nine conv
\* blocks and five max-pools, of widths nf, 2nf, 4nf, 4nf, 8nf, 8nf, 8nf, 8nf,
\* 16nf, chained, feeding both critic heads and the classifier head.
C9_NineConvBlocks ==
    /\ (model.cls = "Discriminator" /\ model.status = "built")
          => /\ Len(BlocksOf(model.attrs["_encoder"])) = 9
             /\ Len(PoolsOf(model.attrs["_encoder"])) = 5
             /\ Len(model.attrs["_encoder"].layers) = 14
             /\ EncoderWidths(model) =
                   <<model.nf, 2 * model.nf, 4 * model.nf, 4 * model.nf,
                     8 * model.nf, 8 * model.nf, 8 * model.nf, 8 * model.nf,
                     16 * model.nf>>
             /\ EncoderChained(model)
    /\ HiddenShared

\* C9 witness: a Discriminator with nf = 2 returned from a call, its hidden
\* map 32 channels deep.
C9_Witness ==
    /\ DiscriminatorReturned
    /\ model.nf = 2
    /\ ret.hidden.c = 32
    /\ Len(BlocksOf(model.attrs["_encoder"])) = 9

====
